---- MODULE Spec2Model ----
(***************************************************************************)
(* Model of src/main.py: the timestamp parser time_to_seconds and the      *)
(* POST /cut-video handler cut_video.                                      *)
(*                                                                         *)
(* Strings that the code parses are sequences of one-character strings, so *)
(* that str.split(':') and float() are computed rather than assumed.       *)
(* Python floats are records [nan, v]: v is the (integral) value, nan      *)
(* marks IEEE NaN, which float("nan") produces and which compares false    *)
(* with everything.  float() reads digits, a leading '-' and "nan"; the   *)
(* enumerated inputs are written with digits, ':' and the letters of "nan" *)
(* and "x".  Fractions, exponents, infinities and surrounding blanks are   *)
(* outside the inputs enumerated here.                                     *)
(***************************************************************************)
EXTENDS Integers, Sequences, FiniteSets, TLC

VARIABLES
    time_str,      \* parser harness: the argument of time_to_seconds
    parsed,        \* parser harness: the outcome of the call
    timeCode,      \* request.timeCode: a list of timestamp strings
    pc,            \* position of the handler
    start_time,    \* local start_time (a float)
    end_time,      \* local end_time (a float)
    temp_dir,      \* the TemporaryDirectory of the request
    attempts,      \* fetch attempts made so far, in order: [browser, result]
    ffmpeg_call,   \* the arguments of the ffmpeg invocation, if any
    response       \* what the client receives

vars == <<time_str, parsed, timeCode, pc, start_time, end_time, temp_dir,
          attempts, ffmpeg_call, response>>

parserVars == <<time_str, parsed>>
handlerVars == <<timeCode, pc, start_time, end_time, temp_dir, attempts,
                 ffmpeg_call, response>>

(***************************************************************************)
(* Bounds                                                                  *)
(***************************************************************************)
MaxParts == 4          \* most colon-separated parts of an enumerated string
MaxTimeCodeLen == 3    \* most entries of an enumerated timeCode list

(***************************************************************************)
(* Python floats                                                           *)
(***************************************************************************)
F(n) == [nan |-> FALSE, v |-> n]
NaN == [nan |-> TRUE, v |-> 0]

FAdd(a, b) == IF a.nan \/ b.nan THEN NaN ELSE F(a.v + b.v)
FSub(a, b) == IF a.nan \/ b.nan THEN NaN ELSE F(a.v - b.v)
FMul(a, b) == IF a.nan \/ b.nan THEN NaN ELSE F(a.v * b.v)
\* a >= b and a > b: false as soon as one side is NaN
FGe(a, b) == ~a.nan /\ ~b.nan /\ a.v >= b.v
FGt(a, b) == ~a.nan /\ ~b.nan /\ a.v > b.v

(***************************************************************************)
(* float(): the literal grammar restricted to the alphabet                 *)
(***************************************************************************)
DigitChars == <<"0", "1", "2", "3", "4", "5", "6", "7", "8", "9">>
Digits == {DigitChars[i] : i \in 1..10}
DigitVal(c) == (CHOOSE i \in 1..10 : DigitChars[i] = c) - 1

IsDigits(p) == Len(p) > 0 /\ \A i \in 1..Len(p) : p[i] \in Digits

RECURSIVE DigitsVal(_)
DigitsVal(p) ==
    IF p = <<>> THEN 0
    ELSE DigitsVal(SubSeq(p, 1, Len(p) - 1)) * 10 + DigitVal(p[Len(p)])

Ok(x) == [ok |-> TRUE, val |-> x, exc |-> "none"]
Raised(e) == [ok |-> FALSE, val |-> F(0), exc |-> e]

\* float(p): a value, or ValueError
float(p) ==
    LET neg == Len(p) > 0 /\ p[1] = "-"
        body == IF neg THEN SubSeq(p, 2, Len(p)) ELSE p
    IN  IF IsDigits(body) THEN Ok(F(IF neg THEN 0 - DigitsVal(body) ELSE DigitsVal(body)))
        ELSE IF body = <<"n", "a", "n">> THEN Ok(NaN)
        ELSE Raised("ValueError")

(***************************************************************************)
(* str.split(':')                                                          *)
(***************************************************************************)
RECURSIVE split(_)
split(s) ==
    IF \A i \in 1..Len(s) : s[i] # ":" THEN <<s>>
    ELSE LET k == CHOOSE i \in 1..Len(s) :
                      s[i] = ":" /\ \A j \in 1..(i - 1) : s[j] # ":"
         IN  <<SubSeq(s, 1, k - 1)>> \o split(SubSeq(s, k + 1, Len(s)))

(***************************************************************************)
(* time_to_seconds                                                         *)
(***************************************************************************)
time_to_seconds_wrong_hours(time_str_) ==
    LET parts == split(time_str_)
        fl == [i \in 1..Len(parts) |-> float(parts[i])]
    IN  IF Len(parts) = 3 THEN
            IF \E i \in 1..3 : ~fl[i].ok THEN Raised("ValueError")
            ELSE Ok(FAdd(FAdd(FMul(fl[1].val, F(60)), FMul(fl[2].val, F(60))), fl[3].val))
        ELSE IF Len(parts) = 2 THEN
            IF \E i \in 1..2 : ~fl[i].ok THEN Raised("ValueError")
            ELSE Ok(FAdd(FMul(fl[1].val, F(60)), fl[2].val))
        ELSE fl[1]

time_to_seconds(time_str_) ==
    LET parts == split(time_str_)
        fl == [i \in 1..Len(parts) |-> float(parts[i])]
    IN  IF Len(parts) = 3 THEN
            \* hours, minutes, seconds = map(float, parts)
            IF \E i \in 1..3 : ~fl[i].ok THEN Raised("ValueError")
            ELSE Ok(FAdd(FAdd(FMul(fl[1].val, F(3600)), FMul(fl[2].val, F(60))), fl[3].val))
        ELSE IF Len(parts) = 2 THEN
            \* minutes, seconds = map(float, parts)
            IF \E i \in 1..2 : ~fl[i].ok THEN Raised("ValueError")
            ELSE Ok(FAdd(FMul(fl[1].val, F(60)), fl[2].val))
        ELSE
            \* every other part count: float(parts[0])
            fl[1]

(***************************************************************************)
(* Enumerated timestamp strings                                            *)
(***************************************************************************)
RECURSIVE Join(_)
Join(ps) ==
    IF Len(ps) = 1 THEN ps[1]
    ELSE ps[1] \o <<":">> \o Join(SubSeq(ps, 2, Len(ps)))

PartStrs ==
    { <<>>, <<"0", "1">>, <<"0", "2">>, <<"0", "3">>, <<"3", "0">>, <<"4", "5">>,
      <<"x">>, <<"n", "a", "n">> }

TimeStrs == { Join(ps) : ps \in UNION { [1..n -> PartStrs] : n \in 1..MaxParts } }

NotParsed == Raised("not called")

(***************************************************************************)
(* Parser harness: one call of time_to_seconds on an enumerated string     *)
(***************************************************************************)
ParseCall ==
    /\ parsed = NotParsed
    /\ time_str \in TimeStrs
    /\ parsed' = time_to_seconds(time_str)
    /\ UNCHANGED <<time_str, handlerVars>>

(***************************************************************************)
(* Exceptions and error responses                                          *)
(***************************************************************************)
MsgTimeCodeLen == "timeCode doit contenir exactement 2 timestamps [start, end]"
MsgOrder == "Le timestamp de debut doit etre inferieur au timestamp de fin"
MsgNoFormats == "Aucun format video disponible pour cette URL"
MsgAuth == "Cette video necessite une authentification ou n'est pas accessible. Essayez avec une autre video publique."
MsgDownload == "Erreur de telechargement YouTube: "
MsgExtract == "Erreur lors de l'extraction des infos: "
MsgNoFile == "Echec du telechargement de la video"
MsgTraitement == "Erreur lors du traitement: "
\* messages of exceptions the handler does not raise itself
MsgFloat == "could not convert string to float"
MsgFfmpeg == "ffmpeg error (see stderr output for detail)"
MsgNoSuchFile == "No such file or directory"

HTTPException(status_code, detail) ==
    [type |-> "HTTPException", status |-> status_code, detail |-> detail]
\* any exception that is not an HTTPException; detail holds its message
Exc(type, msg) == [type |-> type, status |-> 0, detail |-> <<msg>>]

\* str(e): "<status>: <detail>" for an HTTPException, the message otherwise
StrExc(e) ==
    IF e.type = "HTTPException"
    THEN <<IF e.status = 400 THEN "400: " ELSE "500: ">> \o e.detail
    ELSE e.detail

\* except Exception as e: raise HTTPException(500, "Erreur lors du traitement: ...")
\* HTTPException derives from Exception, so the handler's own 400s land here too
outer_except(e) == HTTPException(500, <<MsgTraitement>> \o StrExc(e))

NoResponse ==
    [kind |-> "none", status |-> 0, detail |-> <<>>, media_type |-> "",
     filename |-> [title |-> "", start |-> F(0), end |-> F(0)], body |-> ""]

\* the framework turns an HTTPException leaving the handler into an error body
ErrorResponse(e) ==
    [NoResponse EXCEPT !.kind = "error", !.status = e.status, !.detail = e.detail]

\* return StreamingResponse(io.BytesIO(video_data), media_type="video/mp4", ...)
StreamingResponse(video_data, start, end) ==
    [NoResponse EXCEPT !.kind = "video", !.status = 200, !.media_type = "video/mp4",
                       !.filename = [title |-> "title", start |-> start, end |-> end],
                       !.body = video_data]

(***************************************************************************)
(* The scratch directory                                                   *)
(***************************************************************************)
NoDir == [state |-> "absent", files |-> {}]
\* tempfile.TemporaryDirectory().__enter__
EnterScope_ == [state |-> "open", files |-> {}]
\* leaving the with block, by return or by exception
ExitScope_leaks(d) == d
ExitScope(d) == [state |-> "removed", files |-> {}]

MediaExts == {".mp4", ".webm", ".mkv"}
DownloadedFile == [stem |-> "title", ext |-> ".mp4"]
OutputFile == [stem |-> "cut_title", ext |-> ".mp4"]
\* [f for f in os.listdir(temp_dir) if f.endswith(('.mp4', '.webm', '.mkv'))]
downloaded_files(d) == {f \in d.files : f.ext \in MediaExts}

(***************************************************************************)
(* The fetch collaborator                                                  *)
(***************************************************************************)
ErrSignIn == "Sign in to confirm your age"
ErrBot == "Please prove you are not a bot"
ErrUnavailable == "Video unavailable"
DownloadErrorMsgs == {ErrSignIn, ErrBot, ErrUnavailable}

\* "Sign in to confirm" in str(e) or "bot" in str(e)
IsBotError_never(msg) == FALSE
IsBotError(msg) == msg \in {ErrSignIn, ErrBot}

\* what extract_info(url, download=False) may do
ExtractResults ==
    {[kind |-> k, msg |-> ""] : k \in {"info", "info_no_formats", "None", "Exception"}}
    \cup {[kind |-> "DownloadError", msg |-> m] : m \in DownloadErrorMsgs}
\* what download([url]) may do: write the file or not, then return or raise
DownloadResults ==
    {[kind |-> k, msg |-> "", wrote |-> w] :
        k \in {"returned", "Exception"}, w \in {"file", "nothing"}}
    \cup {[kind |-> "DownloadError", msg |-> m, wrote |-> w] :
        m \in DownloadErrorMsgs, w \in {"file", "nothing"}}

NoExc == Exc("none", "")

\* the exception, if any, that leaves the try body of the first attempt (lines 87-98)
FirstAttemptRaises(ex, dl) ==
    CASE ex.kind = "DownloadError" -> Exc("DownloadError", ex.msg)
      [] ex.kind = "Exception" -> Exc("Exception", "extractor failure")
      [] ex.kind = "None" -> Exc("AttributeError", "'NoneType' object has no attribute 'get'")
      [] ex.kind = "info_no_formats" -> HTTPException(400, <<MsgNoFormats>>)
      [] OTHER ->
            CASE dl.kind = "DownloadError" -> Exc("DownloadError", dl.msg)
              [] dl.kind = "Exception" -> Exc("Exception", "downloader failure")
              [] OTHER -> NoExc

\* whether the try body of a fallback attempt (lines 113-135) reaches success = True
AttemptSucceeds_before_download(ex, dl) == ex.kind \in {"info", "info_no_formats"}
AttemptSucceeds(ex, dl) ==
    /\ ex.kind \in {"info", "info_no_formats"}
    /\ dl.kind = "returned"

\* what the attempt leaves in the directory: download runs only after extract_info
FilesAfter(d, ex, dl) ==
    IF ex.kind \in {"info", "info_no_formats"} /\ dl.wrote # "nothing"
    THEN [d EXCEPT !.files = @ \cup {DownloadedFile}]
    ELSE d

\* the first attempt downloads only when the formats check passed (lines 92-98)
FilesAfterFirst(d, ex, dl) ==
    IF ex.kind = "info" THEN FilesAfter(d, ex, dl) ELSE d

\* 'cookiesfrombrowser': ('chrome', None, None, None)
ydl_opts_browser == "chrome"
browsers_to_try_swapped == <<"edge", "firefox", "safari", "None">>
browsers_to_try == <<"firefox", "edge", "safari", "None">>

\* the record of one attempt: the browser whose cookies it used and how it ended
Attempt(browser, e) ==
    [browser |-> browser,
     result |-> IF e = NoExc THEN "ok"
                ELSE IF e.type \in {"DownloadError", "HTTPException"} THEN e.type
                ELSE "Exception",
     msg |-> IF e.type = "DownloadError" THEN e.detail[1] ELSE ""]

\* the exception, if any, that leaves the try body of a fallback attempt
FallbackRaises(ex, dl) ==
    CASE ex.kind = "DownloadError" -> Exc("DownloadError", ex.msg)
      [] ex.kind = "Exception" -> Exc("Exception", "extractor failure")
      [] ex.kind = "None" -> Exc("AttributeError", "'NoneType' object has no attribute 'get'")
      [] dl.kind = "DownloadError" -> Exc("DownloadError", dl.msg)
      [] dl.kind = "Exception" -> Exc("Exception", "downloader failure")
      [] OTHER -> NoExc

(***************************************************************************)
(* The transcode collaborator                                              *)
(***************************************************************************)
NoCall == [called |-> FALSE, ss |-> F(0), t |-> F(0), result |-> "none"]
\* run(quiet=True): writes the output, raises ffmpeg.Error, or returns without output
TranscodeResults == {"output", "Error", "no_output"}
\* ffmpeg.input(input_file, ss=start_time, t=duration)...run(quiet=True), and how it ended
FfmpegRun(ss, t, r) == [called |-> TRUE, ss |-> ss, t |-> t, result |-> r]

\* open(output_file, 'rb') succeeds
OutputReadable_always(d) == TRUE
OutputReadable(d) == OutputFile \in d.files

(***************************************************************************)
(* cut_video                                                               *)
(***************************************************************************)
TimeStamps ==
    { <<"1", "0">>, <<"0", "0", ":", "3", "0">>, <<"x">>, <<"n", "a", "n">>,
      <<"3", "0", ":", "0", "0", ":", "0", "0", ":", "0", "0">> }

TimeCodes == UNION { [1..n -> TimeStamps] : n \in 0..MaxTimeCodeLen }

\* an exception raised before the with block: only the outer except sees it
RaiseOutside(e) ==
    /\ pc' = "done"
    /\ response' = ErrorResponse(outer_except(e))

\* an exception raised inside the with block: the scope is left, then the outer except
RaiseInside(e, d) ==
    /\ pc' = "done"
    /\ temp_dir' = ExitScope(d)
    /\ response' = ErrorResponse(outer_except(e))

\* if start_time >= end_time: raise
start_not_before_end_strict(s, e) == FGt(s, e)
start_not_before_end(s, e) == FGe(s, e)

\* lines 50-57
Validate ==
    /\ pc = "validate"
    /\ UNCHANGED <<parserVars, timeCode, temp_dir, attempts, ffmpeg_call>>
    /\ IF Len(timeCode) # 2 THEN
           /\ RaiseOutside(HTTPException(400, <<MsgTimeCodeLen>>))
           /\ UNCHANGED <<start_time, end_time>>
       ELSE LET s == time_to_seconds(timeCode[1])
                e == time_to_seconds(timeCode[2])
            IN  IF ~s.ok THEN
                    /\ RaiseOutside(Exc(s.exc, MsgFloat))
                    /\ UNCHANGED <<start_time, end_time>>
                ELSE IF ~e.ok THEN
                    /\ RaiseOutside(Exc(e.exc, MsgFloat))
                    /\ start_time' = s.val
                    /\ UNCHANGED end_time
                ELSE
                    /\ start_time' = s.val
                    /\ end_time' = e.val
                    /\ IF start_not_before_end(s.val, e.val)
                       THEN RaiseOutside(HTTPException(400, <<MsgOrder>>))
                       ELSE pc' = "enter_scope" /\ UNCHANGED response

\* line 83
EnterScope ==
    /\ pc = "enter_scope"
    /\ temp_dir' = EnterScope_
    /\ pc' = "first_attempt"
    /\ UNCHANGED <<parserVars, timeCode, start_time, end_time, attempts, ffmpeg_call,
                   response>>

\* lines 85-102 and 141-144: the attempt with the configured options
FirstAttempt ==
    /\ pc = "first_attempt"
    /\ UNCHANGED <<parserVars, timeCode, start_time, end_time, ffmpeg_call>>
    /\ \E ex \in ExtractResults, dl \in DownloadResults :
        LET e == FirstAttemptRaises(ex, dl)
            d == FilesAfterFirst(temp_dir, ex, dl)
        IN  /\ attempts' = Append(attempts, Attempt(ydl_opts_browser, e))
            /\ IF e = NoExc THEN
                   /\ temp_dir' = d
                   /\ pc' = "listdir"
                   /\ UNCHANGED response
               ELSE IF e.type = "DownloadError" THEN
                   IF IsBotError(e.detail[1]) THEN
                       /\ temp_dir' = d
                       /\ pc' = "fallback"
                       /\ UNCHANGED response
                   ELSE RaiseInside(HTTPException(400, <<MsgDownload>> \o StrExc(e)), d)
               ELSE RaiseInside(HTTPException(400, <<MsgExtract>> \o StrExc(e)), d)

\* lines 111-140: one turn of the loop over browsers_to_try; after the last
\* turn without success the loop ends and the check of success raises
FallbackAttempt ==
    /\ pc = "fallback"
    /\ UNCHANGED <<parserVars, timeCode, start_time, end_time, ffmpeg_call>>
    /\ LET i == Len(attempts) IN
       \E ex \in ExtractResults, dl \in DownloadResults :
        LET e == FallbackRaises(ex, dl)
            d == FilesAfter(temp_dir, ex, dl)
        IN  /\ i \in 1..Len(browsers_to_try)
            /\ attempts' = Append(attempts, Attempt(browsers_to_try[i], e))
            /\ IF AttemptSucceeds(ex, dl) THEN
                   /\ temp_dir' = d
                   /\ pc' = "listdir"
                   /\ UNCHANGED response
               ELSE IF i < Len(browsers_to_try) THEN
                   /\ temp_dir' = d
                   /\ pc' = "fallback"
                   /\ UNCHANGED response
               ELSE RaiseInside(HTTPException(400, <<MsgAuth>>), d)

\* lines 147-157
FindDownloaded ==
    /\ pc = "listdir"
    /\ UNCHANGED <<parserVars, timeCode, start_time, end_time, attempts, ffmpeg_call>>
    /\ IF downloaded_files(temp_dir) = {}
       THEN RaiseInside(HTTPException(500, <<MsgNoFile>>), temp_dir)
       ELSE pc' = "transcode" /\ UNCHANGED <<temp_dir, response>>

\* lines 160-168
Transcode ==
    /\ pc = "transcode"
    /\ UNCHANGED <<parserVars, timeCode, start_time, end_time, attempts>>
    /\ \E r \in TranscodeResults :
        /\ ffmpeg_call' = FfmpegRun(start_time, FSub(end_time, start_time), r)
        /\ IF r = "Error" THEN RaiseInside(Exc("ffmpeg.Error", MsgFfmpeg), temp_dir)
           ELSE
             /\ temp_dir' = IF r = "output"
                            THEN [temp_dir EXCEPT !.files = @ \cup {OutputFile}]
                            ELSE temp_dir
             /\ pc' = "read_output"
             /\ UNCHANGED response

\* lines 171-181
ReadOutput ==
    /\ pc = "read_output"
    /\ UNCHANGED <<parserVars, timeCode, start_time, end_time, attempts, ffmpeg_call>>
    /\ IF OutputReadable(temp_dir) THEN
           /\ response' = StreamingResponse("video_data", start_time, end_time)
           /\ temp_dir' = ExitScope(temp_dir)
           /\ pc' = "done"
       ELSE RaiseInside(Exc("FileNotFoundError", MsgNoSuchFile), temp_dir)

(***************************************************************************)
(* Specifications                                                          *)
(***************************************************************************)
Idle ==
    /\ start_time = F(0)
    /\ end_time = F(0)
    /\ temp_dir = NoDir
    /\ attempts = <<>>
    /\ ffmpeg_call = NoCall
    /\ response = NoResponse

\* one request, from its arrival to its response
Init ==
    /\ time_str = <<>>
    /\ parsed = NotParsed
    /\ timeCode \in TimeCodes
    /\ pc = "validate"
    /\ Idle

Next ==
    \/ Validate
    \/ EnterScope
    \/ FirstAttempt
    \/ FallbackAttempt
    \/ FindDownloaded
    \/ Transcode
    \/ ReadOutput

Spec == Init /\ [][Next]_vars

\* one call of the parser
ParseInit ==
    /\ time_str \in TimeStrs
    /\ parsed = NotParsed
    /\ timeCode = <<>>
    /\ pc = "idle"
    /\ Idle

ParseNext == ParseCall

ParseSpec == ParseInit /\ [][ParseNext]_vars

(***************************************************************************)
(* Vocabulary of the properties                                            *)
(***************************************************************************)
Contains(seq, x) == \E i \in 1..Len(seq) : seq[i] = x

\* the error taxonomy, read off the message the error response carries
IsInvalidRequest(r) ==
    r.kind = "error"
    /\ (Contains(r.detail, MsgTimeCodeLen) \/ Contains(r.detail, MsgOrder)
        \/ Contains(r.detail, MsgFloat))
IsSourceUnavailable(r) ==
    r.kind = "error"
    /\ (Contains(r.detail, MsgAuth) \/ Contains(r.detail, MsgDownload)
        \/ Contains(r.detail, MsgExtract))
IsTranscodeError(r) ==
    r.kind = "error"
    /\ (Contains(r.detail, MsgFfmpeg) \/ Contains(r.detail, MsgNoSuchFile))

Failed(a) == a.result # "ok"
AllFailed == \A i \in 1..Len(attempts) : Failed(attempts[i])
\* the failure is a DownloadError reporting the host's anti-automation check
BotRejection(a) == a.result = "DownloadError" /\ a.msg \in {ErrSignIn, ErrBot}
ConfiguredOrder == <<"chrome", "firefox", "edge", "safari", "None">>

\* timestamps written with digits only, and the seconds they denote
DigitParts == {p \in PartStrs : p # <<>> /\ \A i \in 1..Len(p) : p[i] \in Digits}
WellFormed == UNION { [1..n -> DigitParts] : n \in 1..3 }
Seconds(ps) ==
    LET n == Len(ps)
        at(k) == IF k <= n THEN DigitsVal(ps[n + 1 - k]) ELSE 0
    IN  at(3) * 3600 + at(2) * 60 + at(1)
\* parts float() refuses
NonNumericParts == { <<>>, <<"x">> }
Malformed ==
    { ps \in UNION { [1..n -> PartStrs] : n \in 1..MaxParts } :
        Len(ps) > 3 \/ \E i \in 1..Len(ps) : ps[i] \in NonNumericParts }

Called == parsed # NotParsed
TS010203 == <<"0", "1", ":", "0", "2", ":", "0", "3">>
TS0230 == <<"0", "2", ":", "3", "0">>
TS45 == <<"4", "5">>

(***************************************************************************)
(* Properties                                                              *)
(***************************************************************************)

\* C1: for every timestamp H:MM:SS, MM:SS or SS with numeric parts,
\* time_to_seconds returns hours*3600 + minutes*60 + seconds, an absent part
\* counting as 0; "01:02:03" gives 3723, "02:30" gives 150 and "45" gives 45.
C1_SecondsOfWellFormed ==
    Called =>
        /\ \A ps \in WellFormed : time_str = Join(ps) => parsed = Ok(F(Seconds(ps)))
        /\ time_str = TS010203 => parsed = Ok(F(3723))
        /\ time_str = TS0230 => parsed = Ok(F(150))
        /\ time_str = TS45 => parsed = Ok(F(45))

C1_Witness == Called /\ time_str = TS010203 /\ parsed.ok /\ parsed.val = F(3723)

\* C3 (as stated): parsing fails for every timestamp string whose number of
\* colon-separated parts is not 1, 2 or 3 and for every string with a
\* non-numeric part; no such string is converted to a seconds value.
C3_MalformedNeverConverted ==
    Called => \A ps \in Malformed : time_str = Join(ps) => ~parsed.ok

\* C2: a request whose timeCode holds two parseable timestamps with
\* start >= end is rejected with an InvalidRequest error response; it never
\* reaches the fetch or transcode collaborators and never returns a video.
C2_StartNotBeforeEndRejected ==
    (/\ Len(timeCode) = 2
     /\ time_to_seconds(timeCode[1]).ok
     /\ time_to_seconds(timeCode[2]).ok
     /\ FGe(time_to_seconds(timeCode[1]).val, time_to_seconds(timeCode[2]).val))
    => /\ response.kind # "video"
       /\ attempts = <<>>
       /\ ffmpeg_call = NoCall
       /\ pc \in {"validate", "done"}
       /\ pc = "done" => IsInvalidRequest(response) /\ Contains(response.detail, MsgOrder)

C2_Witness ==
    /\ pc = "done"
    /\ timeCode = << <<"0", "0", ":", "3", "0">>, <<"1", "0">> >>
    /\ start_time = F(30)
    /\ end_time = F(10)
    /\ Contains(response.detail, MsgOrder)

\* C4 (as stated): a request rejected because timeCode does not hold exactly
\* two timestamps, or because start >= end, reaches the client as an error
\* response with HTTP status 400 carrying the validation message.
C4_ValidationErrorsAre400 ==
    (pc = "done"
     /\ (Contains(response.detail, MsgTimeCodeLen) \/ Contains(response.detail, MsgOrder)))
    => response.kind = "error" /\ response.status = 400

C6_AllFailedEndsUnavailable ==
    (attempts # <<>> /\ AllFailed)
    => /\ ffmpeg_call = NoCall
       /\ response.kind # "video"
       /\ pc \in {"fallback", "done"}
       /\ pc = "done" => IsSourceUnavailable(response)

C6_Witness ==
    /\ pc = "done"
    /\ Len(attempts) = 5
    /\ AllFailed
    /\ IsSourceUnavailable(response)
    /\ ffmpeg_call = NoCall

\* C7: the scratch directory of a request no longer exists once the request
\* has produced its response, on every path, and the payload of a video
\* response is the bytes read into memory, not the directory.
C7_ScratchGoneAtResponse ==
    /\ response.kind # "none" => pc = "done" /\ temp_dir.state # "open"
    /\ pc = "done" => response.kind # "none" /\ temp_dir.state # "open"
    /\ response.kind = "video" => response.body = "video_data"

C7_Witness ==
    /\ response.kind = "video"
    /\ temp_dir.state = "removed"
    /\ ffmpeg_call.result = "output"

\* C8 (as stated): whenever the transcoder is invoked, the start offset it is
\* given is the parsed start timestamp and the duration is parsed end minus
\* parsed start, which is strictly positive.
C8_ClipIsEndMinusStart ==
    ffmpeg_call.called
    => /\ ffmpeg_call.ss = time_to_seconds(timeCode[1]).val
       /\ ffmpeg_call.t = FSub(time_to_seconds(timeCode[2]).val,
                               time_to_seconds(timeCode[1]).val)
       /\ FGt(ffmpeg_call.t, F(0))

\* C9: if the transcode operation reports failure, or finishes without
\* producing the output file, the request ends in a TranscodeError error
\* response and never returns a video payload.
C9_TranscodeFailureIsError ==
    (ffmpeg_call.called /\ ffmpeg_call.result # "output")
    => /\ response.kind # "video"
       /\ pc \in {"read_output", "done"}
       /\ pc = "done" => IsTranscodeError(response)

C9_Witness ==
    /\ pc = "done"
    /\ ffmpeg_call.result = "no_output"
    /\ IsTranscodeError(response)

\* C10: within one request the fetch attempts happen in the order chrome,
\* firefox, edge, safari, no-cookies; an attempt starts only after the
\* previous one failed, none is made after a success, and at most 5 are made.
C10_AttemptsInOrder ==
    /\ Len(attempts) <= 5
    /\ \A i \in 1..Len(attempts) : attempts[i].browser = ConfiguredOrder[i]
    /\ \A i \in 1..(Len(attempts) - 1) : Failed(attempts[i])
    /\ (attempts # <<>> /\ ~Failed(attempts[Len(attempts)])) => pc # "fallback"

C10_Witness ==
    /\ Len(attempts) = 5
    /\ attempts[5].browser = "None"
    /\ attempts[5].result = "ok"
    /\ pc = "listdir"

====
